---- MODULE Spec2Model ----
(***************************************************************************)
(* Dynamic hedge core of the DEX front end:                                *)
(*   - HedgeStateManager   (hedge decision engine, posture state machine)  *)
(*   - DynamicHedgePanel   (action scheduler: countdown, manual, cancel)   *)
(*   - DynamicHedgeTradingForm.handleExecuteAction (the apply step)        *)
(*   - OrderStateManager   (order ledger)                                  *)
(* Prices and quantities are small naturals; an order id is dropped where  *)
(* the code draws it at random and never reads it again.                   *)
(***************************************************************************)
EXTENDS Integers, Sequences, FiniteSets, TLC

\* ------------------------------------------------------------------ bounds
\* price samples range over 0..MaxPrice, trigger prices over 1..MaxPrice-1
MaxPrice == 4
\* hedge orders the engine may hold before further samples are withheld
MaxHedgeOrders == 2
\* orders the ledger may hold before addOrder is withheld
MaxLedgerOrders == 2
\* order ids known to the ledger's callers: 1..MaxOrderId
MaxOrderId == 2
\* ids handed to one batchCancelOrders call
MaxBatch == 2
\* order quantities range over 0..MaxQuantity
MaxQuantity == 1

\* countdown: 3 of every NextAction the engine returns
EngineCountdown == 3

Prices == 0..MaxPrice
TriggerPrices == 1..(MaxPrice - 1)

\* ------------------------------------------------------------------ types
\* enum HedgeState
MAIN_ONLY == "MAIN_ONLY"
HEDGE_RISK_LOCK == "HEDGE_RISK_LOCK"
HEDGE_PROFIT_LOCK == "HEDGE_PROFIT_LOCK"
CYCLING == "CYCLING"
HedgeState == {MAIN_ONLY, HEDGE_RISK_LOCK, HEDGE_PROFIT_LOCK, CYCLING}

\* enum PriceZone
RISK_LOCK == "RISK_LOCK"
PROFIT_LOCK == "PROFIT_LOCK"
NEUTRAL == "NEUTRAL"
PriceZone == {RISK_LOCK, PROFIT_LOCK, NEUTRAL}

\* enum OrderStatus (the role of an order)
NORMAL_RUNNING == "NORMAL_RUNNING"
PREPARING_RISK_LOCK == "PREPARING_RISK_LOCK"
RISK_LOCKING == "RISK_LOCKING"
PREPARING_PROFIT_LOCK == "PREPARING_PROFIT_LOCK"
PROFIT_LOCKING == "PROFIT_LOCKING"
OrderStatus ==
    {NORMAL_RUNNING, PREPARING_RISK_LOCK, RISK_LOCKING,
     PREPARING_PROFIT_LOCK, PROFIT_LOCKING}

\* Order.status (the lifecycle status of an order)
LifecycleStatus == {"pending", "filled", "cancelled", "expired"}

\* NextAction.type
NextActionType ==
    {"CREATE_RISK_LOCK", "CREATE_PROFIT_LOCK",
     "CANCEL_RISK_LOCK", "CANCEL_PROFIT_LOCK", "WAIT"}

\* null for a NextAction, a HedgeConfig, an Order
NoAction == [type |-> "NONE", countdown |-> 0, autoExecute |-> FALSE]
NoConfig == [riskLockPrice |-> 0, profitLockPrice |-> 0, quantity |-> 0]
NoOrder == [side |-> "none"]

Configs ==
    [riskLockPrice : TriggerPrices, profitLockPrice : TriggerPrices, quantity : {1}]

VARIABLES
    \* HedgeStateManager
    currentState,        \* private currentState: HedgeState
    config,              \* private config: HedgeConfig | null
    mainOrder,           \* private mainOrder: Order | null
    hedgeOrders,         \* private hedgeOrders: Order[]
    \* DynamicHedgePanel (React state)
    nextAction,          \* useState<NextAction | null>
    countdown,           \* useState<number>
    autoExecuteEnabled,  \* useState(true)
    \* OrderStateManager
    orders,              \* private orders: Order[]
    \* observation of the run (not program state)
    last,                \* the last engine/scheduler operation and what it returned
    origin,              \* engine state right before the sample that emitted nextAction
    applications,        \* how often the nextAction instance was applied (capped at 2)
    cancelled,           \* countdown value at which the nextAction instance was cancelled, 0 if not
    ledgerLast           \* the last ledger operation and what it returned

engineVars == <<currentState, config, mainOrder, hedgeOrders>>
panelVars == <<nextAction, countdown, autoExecuteEnabled>>
ghostVars == <<last, origin, applications, cancelled>>
ledgerVars == <<orders, ledgerLast>>
vars == <<engineVars, panelVars, ghostVars, ledgerVars>>

\* ------------------------------------------------------------------ engine
\* mutant: the lock zones open at the trigger prices
getCurrentPriceZone_Open(currentPrice, riskLockPrice, profitLockPrice) ==
    IF currentPrice < riskLockPrice THEN "RISK_LOCK"
    ELSE IF currentPrice > profitLockPrice THEN "PROFIT_LOCK"
    ELSE "NEUTRAL"

\* getCurrentPriceZone(currentPrice, riskLockPrice, profitLockPrice)
getCurrentPriceZone(currentPrice, riskLockPrice, profitLockPrice) ==
    IF currentPrice <= riskLockPrice THEN RISK_LOCK
    ELSE IF currentPrice >= profitLockPrice THEN PROFIT_LOCK
    ELSE NEUTRAL

\* the object literal a state handler returns
EngineAction(type) ==
    [type |-> type, countdown |-> EngineCountdown, autoExecute |-> FALSE]

\* a handler's outcome: the value of currentState afterwards and the return value
Outcome(state, action) == [state |-> state, action |-> action]

\* mutant: the entry action is returned without advancing currentState
handleMainOnlyState_NoAdvance(zone) ==
    CASE zone = RISK_LOCK -> Outcome(MAIN_ONLY, EngineAction("CREATE_RISK_LOCK"))
      [] zone = PROFIT_LOCK -> Outcome(MAIN_ONLY, EngineAction("CREATE_PROFIT_LOCK"))
      [] OTHER -> Outcome(MAIN_ONLY, NoAction)

handleMainOnlyState(zone) ==
    CASE zone = RISK_LOCK -> Outcome(HEDGE_RISK_LOCK, EngineAction("CREATE_RISK_LOCK"))
      [] zone = PROFIT_LOCK -> Outcome(HEDGE_PROFIT_LOCK, EngineAction("CREATE_PROFIT_LOCK"))
      [] OTHER -> Outcome(MAIN_ONLY, NoAction)

\* mutant: a sample in the NEUTRAL zone releases the posture
handleRiskLockState_Release(zone) ==
    CASE zone = PROFIT_LOCK -> Outcome(HEDGE_PROFIT_LOCK, EngineAction("CANCEL_RISK_LOCK"))
      [] zone = NEUTRAL -> Outcome(MAIN_ONLY, NoAction)
      [] OTHER -> Outcome(HEDGE_RISK_LOCK, NoAction)

\* mutant: a further sample in the RISK_LOCK zone returns the entry action again
handleRiskLockState_Reemit(zone) ==
    CASE zone = PROFIT_LOCK -> Outcome(HEDGE_PROFIT_LOCK, EngineAction("CANCEL_RISK_LOCK"))
      [] zone = RISK_LOCK -> Outcome(HEDGE_RISK_LOCK, EngineAction("CREATE_RISK_LOCK"))
      [] OTHER -> Outcome(HEDGE_RISK_LOCK, NoAction)

handleRiskLockState(zone) ==
    CASE zone = PROFIT_LOCK -> Outcome(HEDGE_PROFIT_LOCK, EngineAction("CANCEL_RISK_LOCK"))
      [] zone = NEUTRAL -> Outcome(HEDGE_RISK_LOCK, NoAction)
      [] OTHER -> Outcome(HEDGE_RISK_LOCK, NoAction)

handleProfitLockState(zone) ==
    CASE zone = RISK_LOCK -> Outcome(HEDGE_RISK_LOCK, EngineAction("CANCEL_PROFIT_LOCK"))
      [] zone = NEUTRAL -> Outcome(HEDGE_PROFIT_LOCK, NoAction)
      [] OTHER -> Outcome(HEDGE_PROFIT_LOCK, NoAction)

\* the zone updatePrice computes ("NONE" when it returns before computing one)
SampleZone(currentPrice) ==
    IF config = NoConfig \/ mainOrder = NoOrder THEN "NONE"
    ELSE getCurrentPriceZone(currentPrice, config.riskLockPrice, config.profitLockPrice)

\* mutant: the guard of updatePrice tests the configuration only
updatePrice_IgnoresMainOrder(currentPrice) ==
    IF config = NoConfig THEN Outcome(currentState, NoAction)
    ELSE LET currentZone ==
                 getCurrentPriceZone(currentPrice, config.riskLockPrice,
                                     config.profitLockPrice)
         IN  CASE currentState = MAIN_ONLY -> handleMainOnlyState(currentZone)
               [] currentState = HEDGE_RISK_LOCK -> handleRiskLockState(currentZone)
               [] currentState = HEDGE_PROFIT_LOCK -> handleProfitLockState(currentZone)
               [] OTHER -> Outcome(currentState, NoAction)

\* updatePrice(currentPrice): the new currentState and the returned NextAction
updatePrice(currentPrice) ==
    IF config = NoConfig \/ mainOrder = NoOrder THEN Outcome(currentState, NoAction)
    ELSE LET currentZone == SampleZone(currentPrice)
         IN  CASE currentState = MAIN_ONLY -> handleMainOnlyState(currentZone)
               [] currentState = HEDGE_RISK_LOCK -> handleRiskLockState(currentZone)
               [] currentState = HEDGE_PROFIT_LOCK -> handleProfitLockState(currentZone)
               [] OTHER -> Outcome(currentState, NoAction)

\* the Order literal createHedgeOrder builds (its random id and its timestamps are
\* never read again)
HedgeOrder(type) ==
    [side |-> IF mainOrder.side = "buy" THEN "sell" ELSE "buy",
     price |-> IF type = "risk" THEN config.riskLockPrice ELSE config.profitLockPrice,
     quantity |-> config.quantity,
     filledQuantity |-> 0,
     remainingQuantity |-> config.quantity,
     status |-> "pending",
     orderState |-> IF type = "risk" THEN RISK_LOCKING ELSE PROFIT_LOCKING]

\* createHedgeOrder throws when the configuration or the main order is missing
createHedgeOrderThrows == config = NoConfig \/ mainOrder = NoOrder

\* createHedgeOrder(type): hedgeOrders afterwards (unchanged when it throws)
createHedgeOrder(type) ==
    IF createHedgeOrderThrows THEN hedgeOrders
    ELSE Append(hedgeOrders, HedgeOrder(type))

\* hedgeOrders.findIndex(order => order.orderState === orderType), 0 for -1
FindHedgeIndex(orderType) ==
    LET hits == {i \in 1..Len(hedgeOrders) : hedgeOrders[i].orderState = orderType}
    IN  IF hits = {} THEN 0 ELSE CHOOSE i \in hits : \A j \in hits : i <= j

\* cancelHedgeOrder(type): hedgeOrders afterwards; the order found is marked
\* cancelled, reported, and spliced out of the list
cancelHedgeOrder(type) ==
    LET orderType == IF type = "risk" THEN RISK_LOCKING ELSE PROFIT_LOCKING
        index == FindHedgeIndex(orderType)
    IN  IF index = 0 THEN hedgeOrders
        ELSE [i \in 1..(Len(hedgeOrders) - 1) |->
                 IF i < index THEN hedgeOrders[i] ELSE hedgeOrders[i + 1]]

\* what the engine holds besides currentState
EngineFields(c, main, hs) == [config |-> c, mainOrder |-> main, hedgeOrders |-> hs]

\* mutant: a sample that enters a lock zone creates the hedge order itself
updatePriceFields_CreatesOrder(currentPrice) ==
    IF updatePrice(currentPrice).action = NoAction
    THEN EngineFields(config, mainOrder, hedgeOrders)
    ELSE EngineFields(config, mainOrder, createHedgeOrder("risk"))

\* updatePrice(currentPrice): config, mainOrder and hedgeOrders afterwards; neither
\* updatePrice nor a state handler assigns them or calls createHedgeOrder,
\* cancelHedgeOrder or the order callback
updatePriceFields(currentPrice) == EngineFields(config, mainOrder, hedgeOrders)

\* the hedge orders the engine holds that are live: pending, in a locking role
ActiveHedge(hs) ==
    {i \in 1..Len(hs) :
        hs[i].status = "pending" /\ hs[i].orderState \in {RISK_LOCKING, PROFIT_LOCKING}}

ActiveWithRole(hs, role) == {i \in ActiveHedge(hs) : hs[i].orderState = role}

\* ------------------------------------------------------------------ apply step
\* nextAction.type === 'create_hedge', the test of the panel's buttons and of
\* handleExecuteAction. 'create_hedge' is a value of the panel's own NextAction
\* declaration, which is not part of the sources; it is taken to hold of every
\* action handed to the panel. (Were it false for an action, the buttons would not
\* be rendered for it, and createHedgeOrder builds the same order for either zone:
\* every behaviour of that reading is one of this reading.)
IsCreateHedge(action) == action # NoAction

\* action.price: the engine's actions carry none (undefined, written 0 like the
\* trigger prices of a null configuration)
ActionPrice(action) == 0

\* handleExecuteAction: the zone it derives from the action
ExecuteZone(action) ==
    IF IsCreateHedge(action) /\ ActionPrice(action) = config.riskLockPrice
    THEN "RISK_LOCK" ELSE "PROFIT_LOCK"

\* handleExecuteAction(action): hedgeOrders afterwards. It calls
\* createHedgeOrder(zone) for every action and never cancelHedgeOrder; the store's
\* addOrder after it is not reached for an action without a price
\* (action.price.toString() throws).
handleExecuteAction(action) ==
    IF action = NoAction THEN hedgeOrders
    ELSE createHedgeOrder(ExecuteZone(action))

\* ------------------------------------------------------------------ observation
LastOp(op) ==
    [op |-> op, price |-> 0, zone |-> "NONE", prev |-> "NONE", emitted |-> "NONE"]

LastSample(price, zone, prev, emitted) ==
    [op |-> "sample", price |-> price, zone |-> zone, prev |-> prev, emitted |-> emitted]

\* what a ledger call was given and what it returned
LedgerOp(op, id, target, result, error) ==
    [op |-> op, id |-> id, target |-> target, result |-> result, error |-> error]

NoOrigin == [state |-> "NONE", hedgeOrders |-> <<>>]

Bump(n) == IF n >= 2 THEN 2 ELSE n + 1

\* an application, observed with the zone of the sample processed right before it
\* ("NONE" when the step before it was not a sample)
LastApply(op) == [LastOp(op) EXCEPT !.zone = last.zone]

Init ==
    /\ currentState = MAIN_ONLY
    /\ config = NoConfig
    /\ mainOrder = NoOrder
    /\ hedgeOrders = <<>>
    /\ nextAction = NoAction
    /\ countdown = 0
    /\ autoExecuteEnabled = TRUE
    /\ orders = <<>>
    /\ last = LastOp("construct")
    /\ origin = NoOrigin
    /\ applications = 0
    /\ cancelled = 0
    /\ ledgerLast = LedgerOp("construct", 0, "NONE", TRUE, "NONE")

\* ------------------------------------------------------------------ engine calls
\* initialize(config), as handleSubmit calls it
Initialize(c) ==
    /\ config' = c
    /\ currentState' = MAIN_ONLY
    /\ mainOrder' = NoOrder
    /\ hedgeOrders' = <<>>
    /\ last' = LastOp("initialize")
    /\ origin' = NoOrigin
    /\ UNCHANGED <<panelVars, applications, cancelled, ledgerVars>>

\* setMainOrder(order)
SetMainOrder(side) ==
    /\ mainOrder' = [side |-> side]
    /\ last' = LastOp("setMainOrder")
    /\ UNCHANGED <<currentState, config, hedgeOrders, panelVars, origin, applications,
                   cancelled, ledgerVars>>

\* the panel's next-action handler: setNextAction(action), and the countdown is
\* started only under action.countdown && action.autoExecute && autoExecuteEnabled
onNextAction(action) ==
    /\ nextAction' = action
    /\ countdown' =
         IF action.countdown # 0 /\ action.autoExecute /\ autoExecuteEnabled
         THEN action.countdown ELSE countdown
    /\ UNCHANGED autoExecuteEnabled

\* A price sample: updatePrice(price), and the hand-off of a returned action to the
\* panel's handler. The manager method that makes the hand-off and fills in the
\* action's autoExecute flag is not part of the sources, so the flag is open.
HandlePriceChange(price) ==
    /\ Len(hedgeOrders) < MaxHedgeOrders
    /\ LET out == updatePrice(price)
       IN  /\ currentState' = out.state
           /\ last' = LastSample(price, SampleZone(price), currentState, out.action.type)
           /\ IF out.action = NoAction
              THEN UNCHANGED <<panelVars, origin, applications, cancelled>>
              ELSE /\ \E autoExecute \in BOOLEAN :
                        onNextAction([out.action EXCEPT !.autoExecute = autoExecute])
                   /\ origin' = [state |-> currentState, hedgeOrders |-> hedgeOrders]
                   /\ applications' = 0
                   /\ cancelled' = 0
    /\ LET fields == updatePriceFields(price)
       IN  /\ config' = fields.config
           /\ mainOrder' = fields.mainOrder
           /\ hedgeOrders' = fields.hedgeOrders
    /\ UNCHANGED ledgerVars

\* ------------------------------------------------------------------ scheduler
\* the countdown effect's guard: a timer is armed exactly in these states
TimerArmed ==
    countdown > 0 /\ nextAction # NoAction /\ nextAction.autoExecute /\ autoExecuteEnabled

\* mutant: the action is executed without setCountdown(0)
Execute_KeepCountdown(op) ==
    /\ hedgeOrders' = handleExecuteAction(nextAction)
    /\ countdown' = countdown
    /\ applications' = Bump(applications)
    /\ last' = LastApply(op)
    /\ UNCHANGED <<currentState, config, mainOrder, nextAction, autoExecuteEnabled,
                   origin, cancelled, ledgerVars>>

\* mutant: the action is executed only if the sample processed right before the
\* application lies in the zone the action was returned for
Execute_Revalidate(op) ==
    /\ IF /\ last.op = "sample"
          /\ ~(currentState = HEDGE_RISK_LOCK /\ last.zone = RISK_LOCK)
          /\ ~(currentState = HEDGE_PROFIT_LOCK /\ last.zone = PROFIT_LOCK)
       THEN UNCHANGED <<hedgeOrders, applications>>
       ELSE /\ hedgeOrders' = handleExecuteAction(nextAction)
            /\ applications' = Bump(applications)
    /\ countdown' = 0
    /\ last' = LastApply(op)
    /\ UNCHANGED <<currentState, config, mainOrder, nextAction, autoExecuteEnabled,
                   origin, cancelled, ledgerVars>>

\* onExecuteAction(nextAction) as handleAutoExecute and handleManualExecute call it,
\* followed by setCountdown(0)
Execute(op) ==
    /\ hedgeOrders' = handleExecuteAction(nextAction)
    /\ countdown' = 0
    /\ applications' = Bump(applications)
    /\ last' = LastApply(op)
    /\ UNCHANGED <<currentState, config, mainOrder, nextAction, autoExecuteEnabled,
                   origin, cancelled, ledgerVars>>

\* mutant: the timer counts down to zero without calling handleAutoExecute
Tick_NoAutoExecute ==
    /\ TimerArmed
    /\ countdown' = countdown - 1
    /\ last' = LastOp("tick")
    /\ UNCHANGED <<engineVars, nextAction, autoExecuteEnabled, origin, applications,
                   cancelled, ledgerVars>>

\* the one-second timer fires: setCountdown(countdown - 1), and at countdown === 1
\* handleAutoExecute()
Tick ==
    /\ TimerArmed
    /\ IF countdown = 1
       THEN Execute("autoExecute")
       ELSE /\ countdown' = countdown - 1
            /\ last' = LastOp("tick")
            /\ UNCHANGED <<engineVars, nextAction, autoExecuteEnabled, origin,
                           applications, cancelled, ledgerVars>>

\* handleManualExecute; its button is disabled while countdown === 0
ManualExecute ==
    /\ IsCreateHedge(nextAction)
    /\ countdown # 0
    /\ Execute("manualExecute")

\* mutant: the cancel handler only switches auto-execution off
CancelAutoExecute_KeepCountdown ==
    /\ IsCreateHedge(nextAction)
    /\ countdown > 0
    /\ autoExecuteEnabled
    /\ countdown' = countdown
    /\ autoExecuteEnabled' = FALSE
    /\ cancelled' = countdown
    /\ last' = LastOp("cancelAutoExecute")
    /\ UNCHANGED <<engineVars, nextAction, origin, applications, ledgerVars>>

\* handleCancelAutoExecute; its button is rendered while countdown > 0 and
\* autoExecuteEnabled
CancelAutoExecute ==
    /\ IsCreateHedge(nextAction)
    /\ countdown > 0
    /\ autoExecuteEnabled
    /\ countdown' = 0
    /\ autoExecuteEnabled' = FALSE
    /\ cancelled' = countdown
    /\ last' = LastOp("cancelAutoExecute")
    /\ UNCHANGED <<engineVars, nextAction, origin, applications, ledgerVars>>

\* handleEnableAutoExecute; its button is rendered while !autoExecuteEnabled
EnableAutoExecute ==
    /\ IsCreateHedge(nextAction)
    /\ ~autoExecuteEnabled
    /\ autoExecuteEnabled' = TRUE
    /\ last' = LastOp("enableAutoExecute")
    /\ UNCHANGED <<engineVars, nextAction, countdown, origin, applications, cancelled,
                   ledgerVars>>

Next ==
    \/ \E c \in Configs : Initialize(c)
    \/ \E side \in {"buy", "sell"} : SetMainOrder(side)
    \/ \E price \in Prices : HandlePriceChange(price)
    \/ Tick
    \/ ManualExecute
    \/ CancelAutoExecute
    \/ EnableAutoExecute

Spec == Init /\ [][Next]_vars

\* the same program with the browser's timer: a setTimeout armed by the countdown
\* effect fires unless the effect's cleanup clears it first
FairSpec == Init /\ [][Next]_vars /\ WF_vars(Tick)

\* direct calls of the engine's public createHedgeOrder / cancelHedgeOrder
CreateHedgeOrderCall(type) ==
    /\ Len(hedgeOrders) < MaxHedgeOrders
    /\ ~createHedgeOrderThrows
    /\ hedgeOrders' = createHedgeOrder(type)
    /\ last' = LastOp("createHedgeOrder")
    /\ UNCHANGED <<currentState, config, mainOrder, panelVars, origin, applications,
                   cancelled, ledgerVars>>

CancelHedgeOrderCall(type) ==
    /\ hedgeOrders' = cancelHedgeOrder(type)
    /\ last' = LastOp("cancelHedgeOrder")
    /\ UNCHANGED <<currentState, config, mainOrder, panelVars, origin, applications,
                   cancelled, ledgerVars>>

EngineNext ==
    \/ Next
    \/ \E type \in {"risk", "profit"} : CreateHedgeOrderCall(type)
    \/ \E type \in {"risk", "profit"} : CancelHedgeOrderCall(type)

\* the engine driven by the scheduler and by direct calls of its public methods
EngineSpec == Init /\ [][EngineNext]_vars

\* ------------------------------------------------------------------ ledger
OrderIds == 1..MaxOrderId

\* the orders handed to addOrder: every caller builds a new order with status
\* 'pending'
LedgerOrders == [id : OrderIds, status : {"pending"}, orderState : OrderStatus]

\* orders.findIndex(order => order.id === orderId), 0 for -1; find() reads the same
\* element
FindOrderIndex(os, orderId) ==
    LET hits == {i \in 1..Len(os) : os[i].id = orderId}
    IN  IF hits = {} THEN 0 ELSE CHOOSE i \in hits : \A j \in hits : i <= j

\* { ...order, ...updates }: the fields of updates override the order's (updatedAt
\* is not modelled)
Merge(order, updates) ==
    [f \in DOMAIN order |-> IF f \in DOMAIN updates THEN updates[f] ELSE order[f]]

\* updateOrder(orderId, updates): orders afterwards
updateOrder(os, orderId, updates) ==
    LET index == FindOrderIndex(os, orderId)
    IN  IF index = 0 THEN os ELSE [os EXCEPT ![index] = Merge(os[index], updates)]

\* updateOrderState(orderId, newState)
updateOrderState(os, orderId, newState) ==
    updateOrder(os, orderId, [orderState |-> newState])

\* the validTransitions table
validTransitions(state) ==
    CASE state = NORMAL_RUNNING -> {PREPARING_RISK_LOCK, PREPARING_PROFIT_LOCK}
      [] state = PREPARING_RISK_LOCK -> {RISK_LOCKING}
      [] state = RISK_LOCKING -> {NORMAL_RUNNING}
      [] state = PREPARING_PROFIT_LOCK -> {PROFIT_LOCKING}
      [] state = PROFIT_LOCKING -> {NORMAL_RUNNING}
      [] OTHER -> {}

\* mutant: a transition to the current role is accepted
isValidStateTransition_Reflexive(current, new) ==
    new \in validTransitions(current) \/ new = current

isValidStateTransition(current, new) == new \in validTransitions(current)

\* mutant: a risk-locking order counts as cancellable
cancellableStates_WithRiskLocking ==
    {NORMAL_RUNNING, PREPARING_RISK_LOCK, PREPARING_PROFIT_LOCK, RISK_LOCKING}

\* cancelOrder's cancellableStates
cancellableStates == {NORMAL_RUNNING, PREPARING_RISK_LOCK, PREPARING_PROFIT_LOCK}

\* a ledger call's outcome: orders afterwards, the return value, the error handed
\* to errorHandler.handleError
LedgerOutcome(os, result, error) == [orders |-> os, result |-> result, error |-> error]

\* transitionOrderState(orderId, newState)
transitionOrderState(os, orderId, newState) ==
    LET index == FindOrderIndex(os, orderId)
    IN  IF index = 0 THEN LedgerOutcome(os, FALSE, "NONE")
        ELSE IF ~isValidStateTransition(os[index].orderState, newState)
             THEN LedgerOutcome(os, FALSE, "VALIDATION_ERROR")
             ELSE LedgerOutcome(updateOrderState(os, orderId, newState), TRUE, "NONE")

\* cancelOrder(orderId)
cancelOrder(os, orderId) ==
    LET index == FindOrderIndex(os, orderId)
    IN  IF index = 0 THEN LedgerOutcome(os, FALSE, "NONE")
        ELSE IF os[index].orderState \notin cancellableStates
             THEN LedgerOutcome(os, FALSE, "VALIDATION_ERROR")
             ELSE LedgerOutcome(
                      updateOrder(os, orderId,
                          [status |-> "cancelled", orderState |-> NORMAL_RUNNING]),
                      TRUE, "NONE")

\* getCancellableOrders(): the indices of the orders it returns
getCancellableOrders(os) ==
    {i \in 1..Len(os) :
        os[i].status = "pending" /\ os[i].orderState \in cancellableStates}

engineSide == <<engineVars, panelVars, ghostVars>>

\* addOrder(order); the callers draw the id of a new order at random, so it is
\* none of the ids in the ledger
AddOrder(order) ==
    /\ Len(orders) < MaxLedgerOrders
    /\ \A i \in 1..Len(orders) : orders[i].id # order.id
    /\ orders' = Append(orders, order)
    /\ ledgerLast' = LedgerOp("addOrder", 0, "NONE", TRUE, "NONE")
    /\ UNCHANGED engineSide

\* updateOrderState(orderId, newState), which validates nothing
UpdateOrderState(orderId, newState) ==
    /\ orders' = updateOrderState(orders, orderId, newState)
    /\ ledgerLast' = LedgerOp("updateOrderState", 0, "NONE", TRUE, "NONE")
    /\ UNCHANGED engineSide

RemoveOrder(orderId) ==
    /\ orders' = SelectSeq(orders, LAMBDA o : o.id # orderId)
    /\ ledgerLast' = LedgerOp("removeOrder", 0, "NONE", TRUE, "NONE")
    /\ UNCHANGED engineSide

ClearAllOrders ==
    /\ orders' = <<>>
    /\ ledgerLast' = LedgerOp("clearAllOrders", 0, "NONE", TRUE, "NONE")
    /\ UNCHANGED engineSide

TransitionOrderState(orderId, newState) ==
    /\ LET out == transitionOrderState(orders, orderId, newState)
       IN  /\ orders' = out.orders
           /\ ledgerLast' =
                LedgerOp("transitionOrderState", orderId, newState, out.result, out.error)
    /\ UNCHANGED engineSide

CancelOrder(orderId) ==
    /\ LET out == cancelOrder(orders, orderId)
       IN  /\ orders' = out.orders
           /\ ledgerLast' = LedgerOp("cancelOrder", orderId, "NONE", out.result, out.error)
    /\ UNCHANGED engineSide

LedgerNext ==
    \/ \E order \in LedgerOrders : AddOrder(order)
    \/ \E orderId \in OrderIds, newState \in OrderStatus :
           UpdateOrderState(orderId, newState)
    \/ \E orderId \in OrderIds : RemoveOrder(orderId)
    \/ ClearAllOrders
    \/ \E orderId \in OrderIds, newState \in OrderStatus :
           TransitionOrderState(orderId, newState)
    \/ \E orderId \in OrderIds : CancelOrder(orderId)

\* the order ledger under every sequence of its calls
LedgerSpec == Init /\ [][LedgerNext]_vars

\* ------------------------------------------------------------------ batch cancel
\* the orderIds arrays handed to batchCancelOrders: repeated and unknown ids included
BatchInputs == UNION {[1..n -> OrderIds] : n \in 0..MaxBatch}

\* what a batchCancelOrders run holds: the ledger's orders and its two result arrays
BatchState(os, successful, failed) ==
    [orders |-> os, successful |-> successful, failed |-> failed]

\* mutant: an id whose cancel fails is not recorded
BatchStep_DropFailed(acc, orderId) ==
    LET out == cancelOrder(acc.orders, orderId)
    IN  IF out.result
        THEN BatchState(out.orders, Append(acc.successful, orderId), acc.failed)
        ELSE BatchState(out.orders, acc.successful, acc.failed)

\* the forEach callback of batchCancelOrders
BatchStep(acc, orderId) ==
    LET out == cancelOrder(acc.orders, orderId)
    IN  IF out.result
        THEN BatchState(out.orders, Append(acc.successful, orderId), acc.failed)
        ELSE BatchState(out.orders, acc.successful, Append(acc.failed, orderId))

\* orderIds.forEach(...), from the left
RECURSIVE forEach(_, _)
forEach(acc, orderIds) ==
    IF orderIds = <<>> THEN acc
    ELSE forEach(BatchStep(acc, Head(orderIds)), Tail(orderIds))

\* batchCancelOrders(orderIds): orders afterwards and { successful, failed }
batchCancelOrders(os, orderIds) == forEach(BatchState(os, <<>>, <<>>), orderIds)

\* what batchCancelOrders was given and what it returned
BatchOp(orderIds, successful, failed) ==
    [op |-> "batchCancelOrders", id |-> 0, target |-> "NONE", result |-> TRUE,
     error |-> "NONE", orderIds |-> orderIds, successful |-> successful,
     failed |-> failed]

BatchCancelOrders(orderIds) ==
    /\ LET out == batchCancelOrders(orders, orderIds)
       IN  /\ orders' = out.orders
           /\ ledgerLast' = BatchOp(orderIds, out.successful, out.failed)
    /\ UNCHANGED engineSide

BatchNext ==
    \/ \E order \in LedgerOrders : AddOrder(order)
    \/ \E orderIds \in BatchInputs : BatchCancelOrders(orderIds)

\* the order ledger filled by addOrder and emptied of live orders by batch cancels
BatchSpec == Init /\ [][BatchNext]_vars

\* ------------------------------------------------------------------ quantities
Quantities == 0..MaxQuantity

\* the orders handed to addOrder, with their quantity fields: a new order has
\* filledQuantity '0' and remainingQuantity equal to its quantity
QuantityOrders ==
    {[id |-> id, status |-> "pending", orderState |-> NORMAL_RUNNING, quantity |-> q,
      filledQuantity |-> 0, remainingQuantity |-> q] :
        id \in OrderIds, q \in Quantities \ {0}}

\* updates: Partial<Order> over the fields a fill report changes
OrderUpdates ==
    [filledQuantity : Quantities] \cup [remainingQuantity : Quantities]
        \cup [filledQuantity : Quantities, remainingQuantity : Quantities]

\* updateOrder(orderId, updates)
UpdateOrder(orderId, updates) ==
    /\ orders' = updateOrder(orders, orderId, updates)
    /\ ledgerLast' = LedgerOp("updateOrder", 0, "NONE", TRUE, "NONE")
    /\ UNCHANGED engineSide

QuantityNext ==
    \/ \E order \in QuantityOrders : AddOrder(order)
    \/ \E orderId \in OrderIds, updates \in OrderUpdates : UpdateOrder(orderId, updates)
    \/ \E orderId \in OrderIds, newState \in OrderStatus :
           TransitionOrderState(orderId, newState)
    \/ \E orderId \in OrderIds : CancelOrder(orderId)

\* the order ledger with the quantity fields of its orders
QuantitySpec == Init /\ [][QuantityNext]_vars

\* ================================================================== claims
ApplyStep == applications' = applications + 1

Matches(state, zone) ==
    \/ state = HEDGE_RISK_LOCK /\ zone = RISK_LOCK
    \/ state = HEDGE_PROFIT_LOCK /\ zone = PROFIT_LOCK

\* the six edges of the role table
LegalEdges ==
    {<<NORMAL_RUNNING, PREPARING_RISK_LOCK>>, <<NORMAL_RUNNING, PREPARING_PROFIT_LOCK>>,
     <<PREPARING_RISK_LOCK, RISK_LOCKING>>, <<RISK_LOCKING, NORMAL_RUNNING>>,
     <<PREPARING_PROFIT_LOCK, PROFIT_LOCKING>>, <<PROFIT_LOCKING, NORMAL_RUNNING>>}

\* C1: with every emitted action applied through the scheduler, the position has at
\* most one active hedge order in every reachable state, and never an active
\* RISK_LOCKING order together with an active PROFIT_LOCKING order.
C1_MutualExclusion ==
    /\ Cardinality(ActiveHedge(hedgeOrders)) <= 1
    /\ ~(/\ ActiveWithRole(hedgeOrders, RISK_LOCKING) # {}
         /\ ActiveWithRole(hedgeOrders, PROFIT_LOCKING) # {})

\* C2: when the action emitted by a sample >= profitLockPrice in HEDGE_RISK_LOCK,
\* with exactly one active RISK_LOCKING hedge order, is applied, the risk-lock order
\* is gone from the active orders, exactly one active PROFIT_LOCKING order exists
\* and HedgeState is HEDGE_PROFIT_LOCK.
C2_SideSwitchOutcome ==
    [][(/\ ApplyStep
        /\ nextAction.type = "CANCEL_RISK_LOCK"
        /\ origin.state = HEDGE_RISK_LOCK
        /\ hedgeOrders = origin.hedgeOrders
        /\ Cardinality(ActiveHedge(hedgeOrders)) = 1
        /\ Cardinality(ActiveWithRole(hedgeOrders, RISK_LOCKING)) = 1)
       => (/\ ActiveWithRole(hedgeOrders', RISK_LOCKING) = {}
           /\ Cardinality(ActiveWithRole(hedgeOrders', PROFIT_LOCKING)) = 1
           /\ Cardinality(ActiveHedge(hedgeOrders')) = 1
           /\ currentState' = HEDGE_PROFIT_LOCK)]_vars

\* C3: transitionOrderState changes the role of the order it finds exactly when
\* (current role, target) is one of the six table edges, returning true and leaving
\* everything else as it was; for any other pair it returns false with a validation
\* error and leaves the ledger unchanged.
C3_RoleTransitionLegality ==
    [][ledgerLast'.op = "transitionOrderState" =>
        LET index == FindOrderIndex(orders, ledgerLast'.id)
            target == ledgerLast'.target
        IN  IF index = 0
            THEN ledgerLast'.result = FALSE /\ orders' = orders
            ELSE IF <<orders[index].orderState, target>> \in LegalEdges
                 THEN /\ ledgerLast'.result = TRUE
                      /\ orders' = [orders EXCEPT ![index].orderState = target]
                 ELSE /\ ledgerLast'.result = FALSE
                      /\ ledgerLast'.error = "VALIDATION_ERROR"
                      /\ orders' = orders]_vars

\* the last call was a transition along a legal edge that moved the role
C3_Witness_Legal ==
    /\ ledgerLast.op = "transitionOrderState"
    /\ ledgerLast.result = TRUE
    /\ ledgerLast.target = RISK_LOCKING
    /\ Len(orders) = 2
    /\ \E i \in 1..Len(orders) : orders[i].orderState = RISK_LOCKING

\* C4: cancelOrder on an order whose role is RISK_LOCKING or PROFIT_LOCKING returns
\* false with a validation error and leaves every order of the ledger unchanged.
C4_CancelRejection ==
    [][(/\ ledgerLast'.op = "cancelOrder"
        /\ FindOrderIndex(orders, ledgerLast'.id) # 0
        /\ orders[FindOrderIndex(orders, ledgerLast'.id)].orderState
               \in {RISK_LOCKING, PROFIT_LOCKING})
       => (/\ ledgerLast'.result = FALSE
           /\ ledgerLast'.error = "VALIDATION_ERROR"
           /\ orders' = orders)]_vars

\* a pending RISK_LOCKING order was fed to cancelOrder and the call was rejected
C4_Witness_Rejected ==
    /\ ledgerLast.op = "cancelOrder"
    /\ ledgerLast.result = FALSE
    /\ ledgerLast.error = "VALIDATION_ERROR"
    /\ Len(orders) = 2
    /\ LET index == FindOrderIndex(orders, ledgerLast.id)
       IN  /\ index # 0
           /\ orders[index].orderState = RISK_LOCKING
           /\ orders[index].status = "pending"

\* C5: a sample whose zone is NEUTRAL, or whose lock zone matches the current
\* posture, leaves HedgeState unchanged and returns no action; no sample ever
\* returns a WAIT action.
C5_SingleTransitionPerCrossing ==
    last.op = "sample" =>
        /\ last.emitted # "WAIT"
        /\ (last.zone = NEUTRAL \/ Matches(last.prev, last.zone)) =>
               (currentState = last.prev /\ last.emitted = "NONE")

\* a second sample in the RISK_LOCK zone returned nothing: the CREATE_RISK_LOCK of
\* the first one is still pending, its countdown not restarted
C5_Witness_Duplicate ==
    /\ last.op = "sample"
    /\ last.zone = RISK_LOCK
    /\ last.prev = HEDGE_RISK_LOCK
    /\ last.emitted = "NONE"
    /\ nextAction.type = "CREATE_RISK_LOCK"
    /\ nextAction.autoExecute
    /\ countdown = EngineCountdown - 1
    /\ applications = 0
    /\ hedgeOrders = <<>>

\* C6: after the user cancels a counting-down action, no hedge order has been
\* created or cancelled and HedgeState equals its value from before the sample
\* that produced the action.
C6_CancelLeavesUntouched ==
    (last.op = "cancelAutoExecute" /\ origin # NoOrigin) =>
        (hedgeOrders = origin.hedgeOrders /\ currentState = origin.state)

\* C7: no NextAction instance is applied more than once.
C7_AtMostOnce == applications <= 1

\* an action applied by manual trigger, auto-execution still enabled afterwards
C7_Witness_Applied ==
    /\ applications = 1
    /\ last.op = "manualExecute"
    /\ nextAction.autoExecute
    /\ autoExecuteEnabled

\* C8: once an action was cancelled during its countdown it is never applied.
C8_CancelWins == [][cancelled # 0 => applications' <= applications]_vars

\* an action cancelled at countdown 1, auto-execution re-enabled, not applied
C8_Witness_LastTick ==
    /\ cancelled = 1
    /\ last.op = "enableAutoExecute"
    /\ autoExecuteEnabled
    /\ nextAction.autoExecute
    /\ applications = 0

\* C9: with riskLockPrice < profitLockPrice the zone computed for a sample is
\* RISK_LOCK iff price <= riskLockPrice, PROFIT_LOCK iff price >= profitLockPrice,
\* NEUTRAL iff strictly between.
C9_ZoneClassification ==
    (/\ last.op = "sample"
     /\ last.zone # "NONE"
     /\ config.riskLockPrice < config.profitLockPrice)
    => /\ last.zone \in PriceZone
       /\ last.zone = RISK_LOCK <=> last.price <= config.riskLockPrice
       /\ last.zone = PROFIT_LOCK <=> last.price >= config.profitLockPrice
       /\ last.zone = NEUTRAL <=>
              (config.riskLockPrice < last.price /\ last.price < config.profitLockPrice)

\* a sample exactly at profitLockPrice, with a neutral band between the triggers
C9_Witness_Boundary ==
    /\ last.op = "sample"
    /\ config.riskLockPrice + 1 < config.profitLockPrice
    /\ last.price = config.profitLockPrice
    /\ last.zone = PROFIT_LOCK

\* C10: HedgeState is MAIN_ONLY right after initialize; from MAIN_ONLY a sample in
\* the RISK_LOCK zone sets HEDGE_RISK_LOCK and returns CREATE_RISK_LOCK, a sample in
\* the PROFIT_LOCK zone sets HEDGE_PROFIT_LOCK and returns CREATE_PROFIT_LOCK.
C10_EntryTransitions ==
    /\ last.op = "initialize" => currentState = MAIN_ONLY
    /\ (last.op = "sample" /\ last.prev = MAIN_ONLY /\ last.zone = RISK_LOCK) =>
           /\ currentState = HEDGE_RISK_LOCK
           /\ last.emitted = "CREATE_RISK_LOCK"
    /\ (last.op = "sample" /\ last.prev = MAIN_ONLY /\ last.zone = PROFIT_LOCK) =>
           /\ currentState = HEDGE_PROFIT_LOCK
           /\ last.emitted = "CREATE_PROFIT_LOCK"

\* the first sample after initialize and setMainOrder fell into the PROFIT_LOCK zone
C10_Witness_ProfitEntry ==
    /\ last.op = "sample"
    /\ last.prev = MAIN_ONLY
    /\ last.zone = PROFIT_LOCK
    /\ currentState = HEDGE_PROFIT_LOCK
    /\ hedgeOrders = <<>>

\* the configuration in force is well formed: the risk trigger below the profit
\* trigger
Straddling == config # NoConfig /\ config.riskLockPrice < config.profitLockPrice

\* C11: under a well-formed configuration, a sample in the PROFIT_LOCK zone while HedgeState is HEDGE_RISK_LOCK sets
\* HEDGE_PROFIT_LOCK and returns CANCEL_RISK_LOCK followed by CREATE_PROFIT_LOCK; a
\* sample in the RISK_LOCK zone while HEDGE_PROFIT_LOCK sets HEDGE_RISK_LOCK and
\* returns CANCEL_PROFIT_LOCK followed by CREATE_RISK_LOCK. (updatePrice returns
\* one NextAction or null: the instructions returned are that one or none.)
C11_SideSwitchEmission ==
    LET instructions == IF last.emitted = "NONE" THEN <<>> ELSE <<last.emitted>>
    IN  /\ (/\ Straddling
            /\ last.op = "sample"
            /\ last.prev = HEDGE_RISK_LOCK
            /\ last.zone = PROFIT_LOCK)
               => /\ currentState = HEDGE_PROFIT_LOCK
                  /\ instructions = <<"CANCEL_RISK_LOCK", "CREATE_PROFIT_LOCK">>
        /\ (/\ Straddling
            /\ last.op = "sample"
            /\ last.prev = HEDGE_PROFIT_LOCK
            /\ last.zone = RISK_LOCK)
               => /\ currentState = HEDGE_RISK_LOCK
                  /\ instructions = <<"CANCEL_PROFIT_LOCK", "CREATE_RISK_LOCK">>

\* an action was handed to the panel in the last step (a pending one is replaced)
HandedOver == last.op = "sample" /\ last.emitted # "NONE"

\* C12: while the countdown of an auto-executing action runs, every timer tick
\* lowers it by exactly one and applies nothing, except the tick at countdown 1,
\* which sets it to zero and applies the action once; the timer applies an action
\* at no other moment. Under fair ticking a running countdown leaves its start
\* value, and a counting-down action is eventually applied unless the user cancels
\* it or another action replaces it.
C12_CountdownAutoApply ==
    /\ [][(last'.op \in {"tick", "autoExecute"}) =>
            /\ TimerArmed
            /\ IF countdown = 1
               THEN /\ last'.op = "autoExecute"
                    /\ countdown' = 0
                    /\ applications' = applications + 1
               ELSE /\ last'.op = "tick"
                    /\ countdown' = countdown - 1
                    /\ applications' = applications
                    /\ hedgeOrders' = hedgeOrders]_vars
    /\ (TimerArmed /\ countdown = EngineCountdown)
           ~> (countdown < EngineCountdown \/ ~TimerArmed)
    /\ (TimerArmed /\ applications = 0)
           ~> (applications = 1 \/ cancelled # 0 \/ HandedOver)

\* the countdown of a CREATE_RISK_LOCK ran out and the timer applied the action
C12_Witness_AutoApplied ==
    /\ Straddling
    /\ last.op = "autoExecute"
    /\ nextAction.type = "CREATE_RISK_LOCK"
    /\ countdown = 0
    /\ applications = 1
    /\ cancelled = 0
    /\ Len(hedgeOrders) = 1

\* C13: an action handed to the scheduler without a countdown, or while
\* auto-execution is disabled, is applied at once, in the step that hands it over.
C13_ImmediateApplication ==
    [][(/\ Straddling
        /\ last'.op = "sample"
        /\ last'.emitted # "NONE"
        /\ (nextAction'.countdown = 0 \/ ~autoExecuteEnabled))
       => applications' = 1]_vars

\* C14: applying CREATE_RISK_LOCK appends exactly one pending RISK_LOCKING order at
\* riskLockPrice, applying CREATE_PROFIT_LOCK exactly one pending PROFIT_LOCKING
\* order at profitLockPrice; the order is on the side opposite to the main order and
\* carries the configured quantity, nothing of it filled.
C14_ApplyCreate ==
    [][(/\ Straddling
        /\ ApplyStep
        /\ nextAction.type \in {"CREATE_RISK_LOCK", "CREATE_PROFIT_LOCK"}
        /\ ~createHedgeOrderThrows)
       => LET risk == nextAction.type = "CREATE_RISK_LOCK"
          IN  hedgeOrders' =
                  Append(hedgeOrders,
                      [side |-> IF mainOrder.side = "buy" THEN "sell" ELSE "buy",
                       price |-> IF risk THEN config.riskLockPrice
                                 ELSE config.profitLockPrice,
                       quantity |-> config.quantity,
                       filledQuantity |-> 0,
                       remainingQuantity |-> config.quantity,
                       status |-> "pending",
                       orderState |-> IF risk THEN RISK_LOCKING ELSE PROFIT_LOCKING])]_vars

\* C15: applying CANCEL_RISK_LOCK (CANCEL_PROFIT_LOCK) while an active RISK_LOCKING
\* (PROFIT_LOCKING) hedge order exists leaves no active hedge order of that role and
\* adds no order.
C15_ApplyCancel ==
    [][/\ (/\ Straddling
           /\ ApplyStep
           /\ nextAction.type = "CANCEL_RISK_LOCK"
           /\ ActiveWithRole(hedgeOrders, RISK_LOCKING) # {})
          => /\ ActiveWithRole(hedgeOrders', RISK_LOCKING) = {}
             /\ Len(hedgeOrders') <= Len(hedgeOrders)
       /\ (/\ Straddling
           /\ ApplyStep
           /\ nextAction.type = "CANCEL_PROFIT_LOCK"
           /\ ActiveWithRole(hedgeOrders, PROFIT_LOCKING) # {})
          => /\ ActiveWithRole(hedgeOrders', PROFIT_LOCKING) = {}
             /\ Len(hedgeOrders') <= Len(hedgeOrders)]_vars

\* C16: an action handed to the scheduler while another one is counting down is
\* rejected: the pending action and its remaining countdown stay as they are and
\* nothing is applied.
C16_SchedulingConflict ==
    [][(/\ Straddling
        /\ last'.op = "sample"
        /\ last'.emitted # "NONE"
        /\ TimerArmed)
       => /\ nextAction' = nextAction
          /\ countdown' = countdown
          /\ applications' = applications
          /\ hedgeOrders' = hedgeOrders]_vars

\* C17: initialize installs no configuration whose riskLockPrice is not below its
\* profitLockPrice, and no price sample is ever classified against one.
C17_ConfigurationValidated ==
    /\ last.op = "initialize" => config.riskLockPrice < config.profitLockPrice
    /\ (last.op = "sample" /\ last.zone # "NONE") =>
           config.riskLockPrice < config.profitLockPrice

\* C18: batchCancelOrders returns in `successful` exactly the input ids, in input
\* order, whose order exists in a cancellable role, and in `failed` exactly the
\* others; every order named in `successful` ends cancelled in role NORMAL_RUNNING
\* with its other fields as before, and every other order is unchanged.
C18_BatchCancelPartition ==
    [][ledgerLast'.op = "batchCancelOrders" =>
        LET orderIds == ledgerLast'.orderIds
            successful == ledgerLast'.successful
            failed == ledgerLast'.failed
            Succeeds(orderId) ==
                LET index == FindOrderIndex(orders, orderId)
                IN  /\ index # 0
                    /\ orders[index].orderState \in
                           {NORMAL_RUNNING, PREPARING_RISK_LOCK, PREPARING_PROFIT_LOCK}
            Fails(orderId) == ~Succeeds(orderId)
        IN  /\ successful = SelectSeq(orderIds, Succeeds)
            /\ failed = SelectSeq(orderIds, Fails)
            /\ Len(orders') = Len(orders)
            /\ \A i \in 1..Len(orders) :
                   IF \E k \in 1..Len(successful) : successful[k] = orders[i].id
                   THEN orders'[i] =
                            [orders[i] EXCEPT !.status = "cancelled",
                                              !.orderState = NORMAL_RUNNING]
                   ELSE orders'[i] = orders[i]]_vars

\* a batch over two orders, one cancelled and one, risk-locking, refused
C18_Witness_Mixed ==
    /\ ledgerLast.op = "batchCancelOrders"
    /\ Len(ledgerLast.orderIds) = 2
    /\ Len(ledgerLast.successful) = 1
    /\ Len(ledgerLast.failed) = 1
    /\ Len(orders) = 2
    /\ \E i, j \in 1..Len(orders) :
           /\ orders[i].id = ledgerLast.successful[1]
           /\ orders[i].status = "cancelled"
           /\ orders[j].id = ledgerLast.failed[1]
           /\ orders[j].status = "pending"
           /\ orders[j].orderState = RISK_LOCKING

\* C19: an order held by the ledger is held by it after every step, and the engine's
\* list of hedge orders never gets shorter: orders are marked, never removed.
C19_NeverDeleted ==
    [][/\ \A i \in 1..Len(orders) :
              \E j \in 1..Len(orders') : orders'[j].id = orders[i].id
       /\ Len(hedgeOrders') >= Len(hedgeOrders)]_vars

\* C20: every order held by the ledger or by the engine has
\* filledQuantity + remainingQuantity = quantity.
C20_QuantityReconciliation ==
    /\ \A i \in 1..Len(orders) :
           orders[i].filledQuantity + orders[i].remainingQuantity = orders[i].quantity
    /\ \A i \in 1..Len(hedgeOrders) :
           hedgeOrders[i].filledQuantity + hedgeOrders[i].remainingQuantity
               = hedgeOrders[i].quantity

\* C21: updatePrice advances HedgeState in the step in which it returns an action,
\* and a sample that falls into the zone of the current posture while the returned
\* action is counting down is judged against the advanced state: it returns
\* nothing and leaves the pending action and its countdown as they are.
C21_AdvanceBeforeHandOff ==
    [][last'.op = "sample" =>
        /\ last'.prev = currentState
        /\ last'.emitted # "NONE" => currentState' # currentState
        /\ (TimerArmed /\ Matches(currentState, last'.zone)) =>
               /\ last'.emitted = "NONE"
               /\ currentState' = currentState
               /\ nextAction' = nextAction
               /\ countdown' = countdown
               /\ applications' = applications]_vars

\* a second sample in the PROFIT_LOCK zone arrived at the last second of the
\* countdown of CREATE_PROFIT_LOCK and changed nothing
C21_Witness_DuringCountdown ==
    /\ Straddling
    /\ last.op = "sample"
    /\ last.zone = PROFIT_LOCK
    /\ last.prev = HEDGE_PROFIT_LOCK
    /\ last.emitted = "NONE"
    /\ nextAction.type = "CREATE_PROFIT_LOCK"
    /\ TimerArmed
    /\ countdown = 1
    /\ applications = 0

\* C22: whatever ledger operation is called, an order's role either stays or moves
\* along one of the six table edges.
C22_RoleEdgesEverywhere ==
    [][\A i \in 1..Len(orders), j \in 1..Len(orders') :
           orders'[j].id = orders[i].id =>
               \/ orders'[j].orderState = orders[i].orderState
               \/ <<orders[i].orderState, orders'[j].orderState>> \in LegalEdges]_vars

\* C23: a sample that returns nothing leaves a pending action, its countdown and the
\* orders as they are, and the timer at countdown 1 and the manual trigger apply
\* the pending action whatever zone the most recent sample fell into: nothing is
\* checked again at apply time.
C23_StaleApplyPreserved ==
    /\ [][(last'.op = "sample" /\ last'.emitted = "NONE") =>
            /\ nextAction' = nextAction
            /\ countdown' = countdown
            /\ applications' = applications
            /\ hedgeOrders' = hedgeOrders]_vars
    /\ [][(last'.op \in {"autoExecute", "manualExecute"}) =>
            /\ applications' = applications + 1
            /\ countdown' = 0
            /\ ~createHedgeOrderThrows => Len(hedgeOrders') = Len(hedgeOrders) + 1]_vars

\* the price went back to NEUTRAL in the last second of the countdown of
\* CREATE_RISK_LOCK, and the timer applied the action all the same
C23_Witness_StaleApply ==
    /\ Straddling
    /\ last.op = "autoExecute"
    /\ last.zone = NEUTRAL
    /\ nextAction.type = "CREATE_RISK_LOCK"
    /\ currentState = HEDGE_RISK_LOCK
    /\ applications = 1
    /\ Len(hedgeOrders) = 1

\* C24: the apply step never throws: whenever the scheduler applies an action,
\* createHedgeOrder finds the configuration and the main order it needs.
C24_ApplyNeverThrows ==
    [][(Straddling /\ ApplyStep) => ~createHedgeOrderThrows]_vars

\* the arrows of the posture graph
PostureEdges ==
    {<<MAIN_ONLY, HEDGE_RISK_LOCK>>, <<MAIN_ONLY, HEDGE_PROFIT_LOCK>>,
     <<HEDGE_RISK_LOCK, HEDGE_PROFIT_LOCK>>, <<HEDGE_PROFIT_LOCK, HEDGE_RISK_LOCK>>}

\* C25: a price sample leaves HedgeState as it is or moves it along one of the four
\* arrows of the posture graph; CYCLING is never reached; HedgeState returns to
\* MAIN_ONLY by initialize only.
C25_PostureGraph ==
    /\ [](currentState \in HedgeState \ {CYCLING})
    /\ [][last'.op = "sample" =>
            \/ currentState' = currentState
            \/ <<currentState, currentState'>> \in PostureEdges]_vars
    /\ [][(currentState # MAIN_ONLY /\ currentState' = MAIN_ONLY) =>
            last'.op = "initialize"]_vars

\* the posture switched back from the profit lock to the risk lock
C25_Witness_SwitchBack ==
    /\ Straddling
    /\ last.op = "sample"
    /\ last.prev = HEDGE_PROFIT_LOCK
    /\ last.zone = RISK_LOCK
    /\ currentState = HEDGE_RISK_LOCK
    /\ origin.state = HEDGE_PROFIT_LOCK

NothingPending == nextAction = NoAction \/ applications >= 1 \/ cancelled # 0

\* C27: while nothing is pending in the scheduler, HedgeState agrees with the hedge
\* orders: MAIN_ONLY with no active hedge order, HEDGE_RISK_LOCK with exactly one,
\* of role RISK_LOCKING, HEDGE_PROFIT_LOCK with exactly one, of role PROFIT_LOCKING.
C27_PostureOrderConsistency ==
    (Straddling /\ mainOrder # NoOrder /\ NothingPending) =>
        /\ currentState = MAIN_ONLY => ActiveHedge(hedgeOrders) = {}
        /\ currentState = HEDGE_RISK_LOCK =>
               /\ Cardinality(ActiveHedge(hedgeOrders)) = 1
               /\ Cardinality(ActiveWithRole(hedgeOrders, RISK_LOCKING)) = 1
        /\ currentState = HEDGE_PROFIT_LOCK =>
               /\ Cardinality(ActiveHedge(hedgeOrders)) = 1
               /\ Cardinality(ActiveWithRole(hedgeOrders, PROFIT_LOCKING)) = 1

\* C28: an action handed to the scheduler for auto-execution that was neither
\* applied nor cancelled has its countdown running, so that the timer's ticks apply
\* it; this holds as well for an action handed over after the user cancelled an
\* earlier countdown.
C28_EventualApplication ==
    (/\ Straddling
     /\ nextAction # NoAction
     /\ nextAction.autoExecute
     /\ applications = 0
     /\ cancelled = 0)
    => TimerArmed

\* C29: a sample that finds no configuration or no main order returns nothing and
\* leaves HedgeState as it was, whatever the price; initialize leaves the engine
\* without a main order.
C29_SamplesWithoutMainOrder ==
    /\ last.op = "initialize" => mainOrder = NoOrder
    /\ (last.op = "sample" /\ (config = NoConfig \/ mainOrder = NoOrder)) =>
           /\ last.emitted = "NONE"
           /\ currentState = last.prev
           /\ currentState = MAIN_ONLY

\* a sample at the risk trigger itself, after initialize and before setMainOrder
C29_Witness_LockZoneIgnored ==
    /\ Straddling
    /\ mainOrder = NoOrder
    /\ last.op = "sample"
    /\ last.price = config.riskLockPrice
    /\ last.emitted = "NONE"
    /\ currentState = MAIN_ONLY
    /\ nextAction # NoAction

\* C30: cancelOrder(id) returns true exactly when the order with that id is one of
\* getCancellableOrders() (pending, in a cancellable role); otherwise it changes
\* nothing.
C30_CancelAgreesWithView ==
    [][ledgerLast'.op = "cancelOrder" =>
        LET index == FindOrderIndex(orders, ledgerLast'.id)
        IN  /\ ledgerLast'.result = TRUE <=> index \in getCancellableOrders(orders)
            /\ index \notin getCancellableOrders(orders) => orders' = orders]_vars

====
